---- MODULE Spec2Model ----
(***************************************************************************)
(* State-machine model of tftp-http-proxy (src/main.go): the startup       *)
(* sequence of main, parseBaseURL, and tftpReadHandler run concurrently    *)
(* for several TFTP read requests.                                         *)
(*                                                                         *)
(* Strings are sequences of one-character strings, so that TrimLeft,       *)
(* HasSuffix, concatenation and URL parsing are computed, not assumed.     *)
(***************************************************************************)
EXTENDS Integers, Sequences, FiniteSets, TLC

(***************************************************************************)
(* Bounds of the model.                                                    *)
(***************************************************************************)
\* largest number of leading "/" a requested filename is given
MaxSlashes == 2
\* largest number of body blocks an origin response delivers
MaxBody == 1

(***************************************************************************)
(* String literals.                                                        *)
(***************************************************************************)
Empty == << >>
Slash == <<"/">>
S_http == <<"h", "t", "t", "p">>
S_HTTP == <<"H", "T", "T", "P">>
S_host == <<"h", "o", "s", "t">>
S_ip == <<"1", "2", "7", ".", "0", ".", "0", ".", "1">>
S_css == <<":", "/", "/">>

\* const httpBaseUrlDefault = "http://127.0.0.1/tftp"
httpBaseUrlDefault == S_http \o S_css \o S_ip \o <<"/", "t", "f", "t", "p">>
\* const appendPathDefault = true
appendPathDefault == TRUE

\* "HTTP://host/x/": the scheme is normalised to lower case by the parse
U_hostx == S_HTTP \o S_css \o S_host \o <<"/", "x", "/">>
\* "host/x": neither a scheme nor a leading "/"
U_rel == S_host \o <<"/", "x">>
\* "/x": an absolute path without scheme and host
U_path == <<"/", "x">>
\* "http:///x": a scheme and an empty authority
U_nohost == S_http \o <<":", "/", "/", "/", "x">>
\* "http:x": an opaque URL
U_opaque == S_http \o <<":", "x">>

\* the values the -http-base-url flag is given
RawBaseUrls == {httpBaseUrlDefault, U_hostx, U_rel, U_path, U_nohost, U_opaque}

\* the values the -http-auth-user and -http-auth-pass flags are given
Usernames == {Empty, <<"u">>}
Passwords == {Empty, <<"p">>}

\* "a/b.bin" and "%": the second is not a valid percent-escape
S_abbin == <<"a", "/", "b", ".", "b", "i", "n">>
S_pct == <<"%">>

RECURSIVE Slashes(_)
Slashes(k) == IF k = 0 THEN Empty ELSE Slash \o Slashes(k - 1)

\* the filenames TFTP clients request
Filenames == {Slashes(k) \o S_abbin : k \in 0..MaxSlashes} \cup {S_pct}

\* the concurrent transfers: TFTP tells them apart by the remote address
Reqs == {"r1", "r2"}
\* rf.(tftp.OutgoingTransfer).RemoteAddr() of each transfer (net.UDPAddr)
RemoteAddr(r) ==
    IF r = "r1" THEN [IP |-> <<10, 0, 0, 1>>, Port |-> 1069]
    ELSE [IP |-> <<10, 0, 0, 2>>, Port |-> 2069]

\* fmt.Sprintf("%d", n) for n >= 0
DigitChar(d) == <<"0", "1", "2", "3", "4", "5", "6", "7", "8", "9">>[d + 1]
RECURSIVE Itoa(_)
Itoa(n) == IF n < 10 THEN <<DigitChar(n)>> ELSE Itoa(n \div 10) \o <<DigitChar(n % 10)>>

\* net.IP.String() of an IPv4 address
IPString(ip) ==
    Itoa(ip[1]) \o <<".">> \o Itoa(ip[2]) \o <<".">> \o Itoa(ip[3]) \o <<".">> \o Itoa(ip[4])

(***************************************************************************)
(* strings.TrimLeft(s, "/") and strings.HasSuffix(s, "/")                  *)
(***************************************************************************)
\* a plausible slip: strings.TrimPrefix removes a single separator
TrimLeftOne(s) == IF Len(s) > 0 /\ Head(s) = "/" THEN Tail(s) ELSE s

RECURSIVE TrimLeft(_)
TrimLeft(s) == IF Len(s) > 0 /\ Head(s) = "/" THEN TrimLeft(Tail(s)) ELSE s

HasSuffixSlash(s) == Len(s) > 0 /\ s[Len(s)] = "/"

HasPrefix(s, p) == Len(s) >= Len(p) /\ SubSeq(s, 1, Len(p)) = p

(***************************************************************************)
(* net/url: parse, as far as the strings above exercise it.                *)
(***************************************************************************)
UpperCase == {"H", "T", "P"}
Letters == {"h", "t", "p", "o", "s", "x", "f", "a", "b", "i", "n", "u"} \cup UpperCase
SchemeExtra == {"0", "1", "2", "7", "+", "-", "."}
HexDigits == {"0", "1", "2", "7", "a", "b", "f"}

ToLowerChar(c) == IF c = "H" THEN "h" ELSE IF c = "T" THEN "t" ELSE IF c = "P" THEN "p" ELSE c
ToLower(s) == [i \in 1..Len(s) |-> ToLowerChar(s[i])]

\* url.getScheme: [ok, scheme, rest]
RECURSIVE GetSchemeAt(_, _)
GetSchemeAt(raw, i) ==
    IF i > Len(raw) THEN [ok |-> TRUE, scheme |-> Empty, rest |-> raw]
    ELSE IF raw[i] \in Letters THEN GetSchemeAt(raw, i + 1)
    ELSE IF raw[i] \in SchemeExtra
         THEN IF i = 1 THEN [ok |-> TRUE, scheme |-> Empty, rest |-> raw]
              ELSE GetSchemeAt(raw, i + 1)
    ELSE IF raw[i] = ":"
         THEN IF i = 1 THEN [ok |-> FALSE, scheme |-> Empty, rest |-> raw]
              ELSE [ok |-> TRUE, scheme |-> SubSeq(raw, 1, i - 1),
                    rest |-> SubSeq(raw, i + 1, Len(raw))]
    ELSE [ok |-> TRUE, scheme |-> Empty, rest |-> raw]

\* index of the first "/" of s, 0 when there is none (strings.Index)
RECURSIVE IndexSlashFrom(_, _)
IndexSlashFrom(s, i) ==
    IF i > Len(s) THEN 0 ELSE IF s[i] = "/" THEN i ELSE IndexSlashFrom(s, i + 1)

\* url.unescape: every "%" is followed by two hex digits
ValidEscapes(s) ==
    \A i \in 1..Len(s) :
        s[i] = "%" => (i + 2 <= Len(s) /\ s[i + 1] \in HexDigits /\ s[i + 2] \in HexDigits)

ParseError == [ok |-> FALSE, Scheme |-> Empty, Opaque |-> Empty, Host |-> Empty, Path |-> Empty]

\* url.parse(rawURL, viaRequest)
UrlParse(raw, viaRequest) ==
    IF raw = Empty /\ viaRequest THEN ParseError
    ELSE LET g == GetSchemeAt(raw, 1) IN
    IF ~g.ok THEN ParseError
    ELSE LET scheme == ToLower(g.scheme)
             rest == g.rest IN
    IF ~HasPrefix(rest, Slash)
    THEN IF scheme # Empty
         THEN [ok |-> TRUE, Scheme |-> scheme, Opaque |-> rest, Host |-> Empty, Path |-> Empty]
         ELSE IF viaRequest THEN ParseError
         ELSE [ok |-> ValidEscapes(rest), Scheme |-> Empty, Opaque |-> Empty,
               Host |-> Empty, Path |-> rest]
    ELSE IF scheme # Empty /\ HasPrefix(rest, <<"/", "/">>)
    THEN LET after == SubSeq(rest, 3, Len(rest))
             i == IndexSlashFrom(after, 1)
             authority == IF i = 0 THEN after ELSE SubSeq(after, 1, i - 1)
             path == IF i = 0 THEN Empty ELSE SubSeq(after, i, Len(after))
         IN [ok |-> ValidEscapes(authority) /\ ValidEscapes(path), Scheme |-> scheme,
             Opaque |-> Empty, Host |-> authority, Path |-> path]
    ELSE [ok |-> ValidEscapes(rest), Scheme |-> scheme, Opaque |-> Empty,
          Host |-> Empty, Path |-> rest]

\* (*url.URL).String()
UrlString(u) ==
    IF u.Opaque # Empty THEN u.Scheme \o <<":">> \o u.Opaque
    ELSE (IF u.Scheme # Empty THEN u.Scheme \o <<":">> ELSE Empty)
         \o (IF (u.Scheme # Empty \/ u.Host # Empty) /\ (u.Host # Empty \/ u.Path # Empty)
             THEN <<"/", "/">> ELSE Empty)
         \o u.Host
         \o (IF u.Path # Empty /\ Head(u.Path) # "/" /\ u.Host # Empty THEN Slash ELSE Empty)
         \o u.Path

(***************************************************************************)
(* parseBaseURL(baseUrl, appendPath): [panic, base]                        *)
(***************************************************************************)
\* a plausible slip: the host check is left out
ParseBaseURLNoHostCheck(baseUrl, appendPath) ==
    LET u == UrlParse(baseUrl, TRUE) IN
    IF ~u.ok THEN [panic |-> TRUE, base |-> Empty]
    ELSE IF u.Scheme = Empty THEN [panic |-> TRUE, base |-> Empty]
    ELSE LET base == UrlString(u) IN
         IF appendPath /\ ~HasSuffixSlash(base)
         THEN [panic |-> FALSE, base |-> base \o Slash]
         ELSE [panic |-> FALSE, base |-> base]

\* a plausible slip: the separator is appended without looking at the suffix
ParseBaseURLAlwaysSlash(baseUrl, appendPath) ==
    LET u == UrlParse(baseUrl, TRUE) IN
    IF ~u.ok THEN [panic |-> TRUE, base |-> Empty]
    ELSE IF u.Scheme = Empty THEN [panic |-> TRUE, base |-> Empty]
    ELSE IF u.Host = Empty THEN [panic |-> TRUE, base |-> Empty]
    ELSE LET base == UrlString(u) IN
         IF appendPath
         THEN [panic |-> FALSE, base |-> base \o Slash]
         ELSE [panic |-> FALSE, base |-> base]

ParseBaseURL(baseUrl, appendPath) ==
    LET u == UrlParse(baseUrl, TRUE) IN
    IF ~u.ok THEN [panic |-> TRUE, base |-> Empty]
    ELSE IF u.Scheme = Empty THEN [panic |-> TRUE, base |-> Empty]
    ELSE IF u.Host = Empty THEN [panic |-> TRUE, base |-> Empty]
    ELSE LET base == UrlString(u) IN
         IF appendPath /\ ~HasSuffixSlash(base)
         THEN [panic |-> FALSE, base |-> base \o Slash]
         ELSE [panic |-> FALSE, base |-> base]

(***************************************************************************)
(* State.                                                                  *)
(***************************************************************************)
VARIABLES
    flags,        \* the values flag.Parse() left in main's locals
    globalState,  \* var globalState (process-wide)
    mainpc,       \* position of main
    sdNotify,     \* the results of the systemd.SdNotify calls made so far
    mainLog,      \* diagnostic records written by main
    invoked,      \* TRUE once the engine has invoked the read handler
    req           \* per transfer: the locals of tftpReadHandler and its effects

vars == <<flags, globalState, mainpc, sdNotify, mainLog, invoked, req>>

NoErr == [type |-> "nil", msg |-> "", status |-> 0]
NoAuth == [set |-> FALSE, user |-> Empty, pass |-> Empty]
NoReq == [uri |-> Empty, hdrIP |-> Empty, hdrPort |-> Empty, hdrFile |-> Empty, auth |-> NoAuth]
NoResp == [StatusCode |-> 0, ContentLength |-> -1]

\* http.StatusOK, http.StatusNotFound and two further statuses an origin sends
StatusOK == 200
StatusNotFound == 404
StatusNoContent == 204
StatusInternalServerError == 500
Statuses == {StatusOK, StatusNotFound, StatusNoContent, StatusInternalServerError}

\* the responses httpClient.Do returns: any declared length on a 200, an
\* error page of declared length MaxBody on the others
Responses ==
    {[StatusCode |-> StatusOK, ContentLength |-> n] : n \in -1..MaxBody}
    \cup {[StatusCode |-> s, ContentLength |-> MaxBody] : s \in Statuses \ {StatusOK}}

IdleReq ==
    [pc |-> "idle", filename |-> Empty, uri |-> Empty, httpReq |-> NoReq,
     fetches |-> << >>, resp |-> NoResp, sink |-> << >>, closed |-> 0,
     err |-> NoErr, log |-> << >>]

Init ==
    /\ flags \in [httpBaseUrl : RawBaseUrls, appendPath : BOOLEAN,
                  authUsername : Usernames, authPassword : Passwords]
    /\ globalState = [httpBaseUrl |-> httpBaseUrlDefault, httpClient |-> "nil",
                      appendPath |-> appendPathDefault,
                      authUsername |-> Empty, authPassword |-> Empty]
    /\ mainpc = "l120"
    /\ sdNotify = << >>
    /\ mainLog = << >>
    /\ invoked = FALSE
    /\ req = [r \in Reqs |-> IdleReq]

(***************************************************************************)
(* main                                                                    *)
(***************************************************************************)
\* line 120: globalState.httpBaseUrl = parseBaseURL(...); log.Panicf ends the process
MainParseBaseURL ==
    /\ mainpc = "l120"
    /\ LET p == ParseBaseURL(flags.httpBaseUrl, flags.appendPath) IN
       IF p.panic
       THEN /\ mainpc' = "panic"
            /\ mainLog' = Append(mainLog, "FATAL: invalid base URL")
            /\ UNCHANGED globalState
       ELSE /\ mainpc' = "l121"
            /\ globalState' = [globalState EXCEPT !.httpBaseUrl = p.base]
            /\ UNCHANGED mainLog
    /\ UNCHANGED <<flags, sdNotify, invoked, req>>

\* line 121
MainSetClient ==
    /\ mainpc = "l121"
    /\ globalState' = [globalState EXCEPT !.httpClient = "client"]
    /\ mainpc' = "l122"
    /\ UNCHANGED <<flags, sdNotify, mainLog, invoked, req>>

\* a plausible slip: line 122 is missing, globalState.appendPath keeps its default
MainKeepsAppendPathDefault ==
    /\ mainpc = "l122"
    /\ mainpc' = "l123"
    /\ UNCHANGED <<flags, globalState, sdNotify, mainLog, invoked, req>>

\* line 122
MainSetAppendPath ==
    /\ mainpc = "l122"
    /\ globalState' = [globalState EXCEPT !.appendPath = flags.appendPath]
    /\ mainpc' = "l123"
    /\ UNCHANGED <<flags, sdNotify, mainLog, invoked, req>>

\* line 123
MainSetUsername ==
    /\ mainpc = "l123"
    /\ globalState' = [globalState EXCEPT !.authUsername = flags.authUsername]
    /\ mainpc' = "l124"
    /\ UNCHANGED <<flags, sdNotify, mainLog, invoked, req>>

\* line 124
MainSetPassword ==
    /\ mainpc = "l124"
    /\ globalState' = [globalState EXCEPT !.authPassword = flags.authPassword]
    /\ mainpc' = "l126"
    /\ UNCHANGED <<flags, sdNotify, mainLog, invoked, req>>

\* lines 126-127: tftp.NewServer(tftpReadHandler, nil); s.SetTimeout(...)
MainNewServer ==
    /\ mainpc = "l126"
    /\ mainpc' = "l128"
    /\ UNCHANGED <<flags, globalState, sdNotify, mainLog, invoked, req>>

\* line 128: ListenAndServe2 binds the address and calls the function it was given
ListenBound ==
    /\ mainpc = "l128"
    /\ mainpc' = "l129"
    /\ UNCHANGED <<flags, globalState, sdNotify, mainLog, invoked, req>>

\* lines 128, 139-141: the bind fails, ListenAndServe2 returns the error
ListenFailed ==
    /\ mainpc = "l128"
    /\ mainpc' = "panic"
    /\ mainLog' = Append(mainLog, "FATAL: tftp server")
    /\ UNCHANGED <<flags, globalState, sdNotify, invoked, req>>

\* the outcomes of systemd.SdNotify: (true, nil), (false, nil), (false, err)
SdNotifyResults == {"sent", "unsupported", "error"}

\* a plausible slip: a failed notification ends the process
OnListeningFatal(res) ==
    /\ mainpc = "l129"
    /\ res \in SdNotifyResults
    /\ sdNotify' = Append(sdNotify, res)
    /\ IF res = "error"
       THEN /\ mainLog' = mainLog \o <<"INFO: Listening", "FATAL: systemd">>
            /\ mainpc' = "panic"
       ELSE /\ mainLog' = mainLog \o <<"INFO: Listening", "DEBUG: systemd">>
            /\ mainpc' = "serving"
    /\ UNCHANGED <<flags, globalState, invoked, req>>

\* lines 128-138: the function main hands to ListenAndServe2
OnListening(res) ==
    /\ mainpc = "l129"
    /\ res \in SdNotifyResults
    /\ sdNotify' = Append(sdNotify, res)
    /\ mainLog' = mainLog \o <<"INFO: Listening",
                    IF res = "error" THEN "WARN: systemd" ELSE "DEBUG: systemd">>
    /\ mainpc' = "serving"
    /\ UNCHANGED <<flags, globalState, invoked, req>>

(***************************************************************************)
(* tftpReadHandler(filename, rf), one invocation per transfer r            *)
(***************************************************************************)
Running == mainpc = "serving"

Log(r, line) == Append(req[r].log, line)

\* lines 35-38: the engine invokes the handler for a read request
Accept(r, filename) ==
    /\ Running
    /\ req[r].pc = "idle"
    /\ filename \in Filenames
    /\ req' = [req EXCEPT ![r].pc = "l40", ![r].filename = filename,
                          ![r].log = Log(r, "INFO: New TFTP request")]
    /\ invoked' = TRUE
    /\ UNCHANGED <<flags, globalState, mainpc, sdNotify, mainLog>>

\* a plausible slip: one separator is stripped instead of all of them
ComposeUriTrimOne(base, appendPath, filename) ==
    IF appendPath THEN base \o TrimLeftOne(filename) ELSE base

\* lines 40-48: the fetch target
ComposeUri(base, appendPath, filename) ==
    IF appendPath THEN base \o TrimLeft(filename) ELSE base

\* a plausible slip: the composed target is stored back as the base address
ComposeStoresBase(r) ==
    /\ Running
    /\ req[r].pc = "l40"
    /\ LET uri == ComposeUri(globalState.httpBaseUrl, globalState.appendPath, req[r].filename) IN
       /\ req' = [req EXCEPT ![r].pc = "l50", ![r].uri = uri]
       /\ globalState' = [globalState EXCEPT !.httpBaseUrl = uri]
    /\ UNCHANGED <<flags, mainpc, sdNotify, mainLog, invoked>>

Compose(r) ==
    /\ Running
    /\ req[r].pc = "l40"
    /\ req' = [req EXCEPT ![r].pc = "l50",
                          ![r].uri = ComposeUri(globalState.httpBaseUrl,
                                                globalState.appendPath, req[r].filename)]
    /\ UNCHANGED <<flags, globalState, mainpc, sdNotify, mainLog, invoked>>

\* a plausible slip: credentials are attached only when a password is set too
BasicAuthNeedsPassword(user, pass) ==
    IF user # Empty /\ pass # Empty THEN [set |-> TRUE, user |-> user, pass |-> pass] ELSE NoAuth

\* lines 59-61: req.SetBasicAuth when a username is configured
BasicAuth(user, pass) ==
    IF user # Empty THEN [set |-> TRUE, user |-> user, pass |-> pass] ELSE NoAuth

\* a plausible slip: X-TFTP-File is given the filename as stripped for the target
NewRequestStrippedFile(r) ==
    /\ Running
    /\ req[r].pc = "l50"
    /\ IF ~UrlParse(req[r].uri, FALSE).ok
       THEN req' = [req EXCEPT ![r].pc = "done",
                               ![r].err = [type |-> "*url.Error", msg |-> "parse", status |-> 0],
                               ![r].log = Log(r, "ERR: http request setup failed")]
       ELSE req' = [req EXCEPT ![r].pc = "l62",
                               ![r].log = Log(r, "URI"),
                               ![r].httpReq =
                                   [uri |-> req[r].uri,
                                    hdrIP |-> IPString(RemoteAddr(r).IP),
                                    hdrPort |-> Itoa(RemoteAddr(r).Port),
                                    hdrFile |-> TrimLeft(req[r].filename),
                                    auth |-> BasicAuth(globalState.authUsername,
                                                       globalState.authPassword)]]
    /\ UNCHANGED <<flags, globalState, mainpc, sdNotify, mainLog, invoked>>

\* lines 50-61: http.NewRequest, the X-TFTP-* headers, the credentials
NewRequest(r) ==
    /\ Running
    /\ req[r].pc = "l50"
    /\ IF ~UrlParse(req[r].uri, FALSE).ok
       THEN req' = [req EXCEPT ![r].pc = "done",
                               ![r].err = [type |-> "*url.Error", msg |-> "parse", status |-> 0],
                               ![r].log = Log(r, "ERR: http request setup failed")]
       ELSE req' = [req EXCEPT ![r].pc = "l62",
                               ![r].log = Log(r, "URI"),
                               ![r].httpReq =
                                   [uri |-> req[r].uri,
                                    hdrIP |-> IPString(RemoteAddr(r).IP),
                                    hdrPort |-> Itoa(RemoteAddr(r).Port),
                                    hdrFile |-> req[r].filename,
                                    auth |-> BasicAuth(globalState.authUsername,
                                                       globalState.authPassword)]]
    /\ UNCHANGED <<flags, globalState, mainpc, sdNotify, mainLog, invoked>>

\* lines 62, 67: httpClient.Do returns a response; its Close is deferred
DoResponse(r, resp) ==
    /\ Running
    /\ req[r].pc = "l62"
    /\ resp \in Responses
    /\ req' = [req EXCEPT ![r].pc = "l69",
                          ![r].fetches = Append(@, req[r].httpReq),
                          ![r].resp = resp]
    /\ UNCHANGED <<flags, globalState, mainpc, sdNotify, mainLog, invoked>>

\* a plausible slip: a failed fetch is dispatched again
DoFailedRetry(r) ==
    /\ Running
    /\ req[r].pc = "l62"
    /\ Len(req[r].fetches) < 2
    /\ req' = [req EXCEPT ![r].fetches = Append(@, req[r].httpReq),
                          ![r].log = Log(r, "ERR: http request failed")]
    /\ UNCHANGED <<flags, globalState, mainpc, sdNotify, mainLog, invoked>>

\* a plausible slip: the failed fetch is returned without a log line
DoFailedSilent(r) ==
    /\ Running
    /\ req[r].pc = "l62"
    /\ req' = [req EXCEPT ![r].pc = "done",
                          ![r].fetches = Append(@, req[r].httpReq),
                          ![r].err = [type |-> "*url.Error", msg |-> "Get", status |-> 0]]
    /\ UNCHANGED <<flags, globalState, mainpc, sdNotify, mainLog, invoked>>

\* lines 62-66: httpClient.Do fails (connection refused, DNS failure, ...)
DoFailed(r) ==
    /\ Running
    /\ req[r].pc = "l62"
    /\ req' = [req EXCEPT ![r].pc = "done",
                          ![r].fetches = Append(@, req[r].httpReq),
                          ![r].err = [type |-> "*url.Error", msg |-> "Get", status |-> 0],
                          ![r].log = Log(r, "ERR: http request failed")]
    /\ UNCHANGED <<flags, globalState, mainpc, sdNotify, mainLog, invoked>>

\* lines 71, 74: the errors fmt.Errorf builds, both of type *errors.errorString
ErrFileNotFound == [type |-> "*errors.errorString", msg |-> "File not found", status |-> 0]
ErrHttpRequest(status) ==
    [type |-> "*errors.errorString", msg |-> "HTTP request error", status |-> status]

\* a plausible slip: the origin's failure is logged with log.Panicf
CheckStatusPanics(r) ==
    /\ Running
    /\ req[r].pc = "l69"
    /\ IF req[r].resp.StatusCode # StatusOK
       THEN /\ req' = [req EXCEPT ![r].pc = "done", ![r].closed = @ + 1,
                                  ![r].err = ErrHttpRequest(req[r].resp.StatusCode),
                                  ![r].log = Log(r, "ERR: http request returned status")]
            /\ mainpc' = "panic"
       ELSE /\ req' = [req EXCEPT ![r].pc = "l78"]
            /\ UNCHANGED mainpc
    /\ UNCHANGED <<flags, globalState, sdNotify, mainLog, invoked>>

\* a plausible slip: the early returns leave the response body open
CheckStatusLeaks(r) ==
    /\ Running
    /\ req[r].pc = "l69"
    /\ IF req[r].resp.StatusCode = StatusNotFound
       THEN req' = [req EXCEPT ![r].pc = "done",
                               ![r].err = ErrFileNotFound,
                               ![r].log = Log(r, "INFO: http FileNotFound response")]
       ELSE IF req[r].resp.StatusCode # StatusOK
       THEN req' = [req EXCEPT ![r].pc = "done",
                               ![r].err = ErrHttpRequest(req[r].resp.StatusCode),
                               ![r].log = Log(r, "ERR: http request returned status")]
       ELSE req' = [req EXCEPT ![r].pc = "l78"]
    /\ UNCHANGED <<flags, globalState, mainpc, sdNotify, mainLog, invoked>>

\* a plausible slip: every 2xx status counts as success
CheckStatusAny2xx(r) ==
    /\ Running
    /\ req[r].pc = "l69"
    /\ IF req[r].resp.StatusCode = StatusNotFound
       THEN req' = [req EXCEPT ![r].pc = "done", ![r].closed = @ + 1,
                               ![r].err = ErrFileNotFound,
                               ![r].log = Log(r, "INFO: http FileNotFound response")]
       ELSE IF req[r].resp.StatusCode \notin 200..299
       THEN req' = [req EXCEPT ![r].pc = "done", ![r].closed = @ + 1,
                               ![r].err = ErrHttpRequest(req[r].resp.StatusCode),
                               ![r].log = Log(r, "ERR: http request returned status")]
       ELSE req' = [req EXCEPT ![r].pc = "l78"]
    /\ UNCHANGED <<flags, globalState, mainpc, sdNotify, mainLog, invoked>>

\* lines 69-75 (and the deferred Close of line 67 on the two returns)
CheckStatus(r) ==
    /\ Running
    /\ req[r].pc = "l69"
    /\ IF req[r].resp.StatusCode = StatusNotFound
       THEN req' = [req EXCEPT ![r].pc = "done", ![r].closed = @ + 1,
                               ![r].err = ErrFileNotFound,
                               ![r].log = Log(r, "INFO: http FileNotFound response")]
       ELSE IF req[r].resp.StatusCode # StatusOK
       THEN req' = [req EXCEPT ![r].pc = "done", ![r].closed = @ + 1,
                               ![r].err = ErrHttpRequest(req[r].resp.StatusCode),
                               ![r].log = Log(r, "ERR: http request returned status")]
       ELSE req' = [req EXCEPT ![r].pc = "l78"]
    /\ UNCHANGED <<flags, globalState, mainpc, sdNotify, mainLog, invoked>>

SinkOp(op, n) == [op |-> op, n |-> n]

\* a plausible slip: a declared length of zero is taken for "no length"
SetSizePositiveOnly(r) ==
    /\ Running
    /\ req[r].pc = "l78"
    /\ req' = [req EXCEPT ![r].pc = "l82",
                          ![r].sink = IF req[r].resp.ContentLength > 0
                                      THEN Append(@, SinkOp("SetSize", req[r].resp.ContentLength))
                                      ELSE @]
    /\ UNCHANGED <<flags, globalState, mainpc, sdNotify, mainLog, invoked>>

\* lines 77-80: rf.SetSize(resp.ContentLength) when the length is declared
SetSize(r) ==
    /\ Running
    /\ req[r].pc = "l78"
    /\ req' = [req EXCEPT ![r].pc = "l82",
                          ![r].sink = IF req[r].resp.ContentLength >= 0
                                      THEN Append(@, SinkOp("SetSize", req[r].resp.ContentLength))
                                      ELSE @]
    /\ UNCHANGED <<flags, globalState, mainpc, sdNotify, mainLog, invoked>>

\* the blocks the sink has consumed from resp.Body
Written(r) == Cardinality({i \in 1..Len(req[r].sink) : req[r].sink[i].op = "Write"})

\* line 82: rf.ReadFrom(resp.Body) is entered
ReadFromCall(r) ==
    /\ Running
    /\ req[r].pc = "l82"
    /\ req' = [req EXCEPT ![r].pc = "reading", ![r].sink = Append(@, SinkOp("ReadFrom", 0))]
    /\ UNCHANGED <<flags, globalState, mainpc, sdNotify, mainLog, invoked>>

\* line 82: ReadFrom moves one block of the body to the peer
ReadFromBlock(r) ==
    /\ Running
    /\ req[r].pc = "reading"
    /\ Written(r) < (IF req[r].resp.ContentLength >= 0 THEN req[r].resp.ContentLength ELSE MaxBody)
    /\ req' = [req EXCEPT ![r].sink = Append(@, SinkOp("Write", 1))]
    /\ UNCHANGED <<flags, globalState, mainpc, sdNotify, mainLog, invoked>>

\* lines 82-88 (and the deferred Close): the body is exhausted, ReadFrom returns nil
ReadFromEOF(r) ==
    /\ Running
    /\ req[r].pc = "reading"
    /\ req[r].resp.ContentLength >= 0 => Written(r) = req[r].resp.ContentLength
    /\ req' = [req EXCEPT ![r].pc = "done", ![r].closed = @ + 1]
    /\ UNCHANGED <<flags, globalState, mainpc, sdNotify, mainLog, invoked>>

\* a plausible slip: a failure after some blocks were delivered is reported as success
ReadFromFailedPartialSuccess(r) ==
    /\ Running
    /\ req[r].pc = "reading"
    /\ req' = [req EXCEPT ![r].pc = "done", ![r].closed = @ + 1,
                          ![r].err = IF Written(r) > 0 THEN NoErr
                                     ELSE [type |-> "error", msg |-> "ReadFrom", status |-> 0],
                          ![r].log = Log(r, "ERR: ReadFrom failed")]
    /\ UNCHANGED <<flags, globalState, mainpc, sdNotify, mainLog, invoked>>

\* lines 82-86 (and the deferred Close): reading the body or sending to the peer fails
ReadFromFailed(r) ==
    /\ Running
    /\ req[r].pc = "reading"
    /\ req' = [req EXCEPT ![r].pc = "done", ![r].closed = @ + 1,
                          ![r].err = [type |-> "error", msg |-> "ReadFrom", status |-> 0],
                          ![r].log = Log(r, "ERR: ReadFrom failed")]
    /\ UNCHANGED <<flags, globalState, mainpc, sdNotify, mainLog, invoked>>

\* line 62: httpClient.Do never returns. The origin accepts the request and
\* stays silent; the client of line 121 is http.Client{} (no Timeout), the
\* request of line 50 carries no deadline, and the duration given to
\* s.SetTimeout at line 127 bounds only the engine's wait for the TFTP peer.
DoBlocksForever(r) ==
    /\ Running
    /\ req[r].pc = "l62"
    /\ req' = [req EXCEPT ![r].pc = "l62blocked",
                          ![r].fetches = Append(@, req[r].httpReq)]
    /\ UNCHANGED <<flags, globalState, mainpc, sdNotify, mainLog, invoked>>

\* line 82: the origin stops sending in the middle of the body, so the Read of
\* resp.Body inside rf.ReadFrom never returns; nothing bounds that Read either.
ReadFromBlocksForever(r) ==
    /\ Running
    /\ req[r].pc = "reading"
    /\ Written(r) < (IF req[r].resp.ContentLength >= 0 THEN req[r].resp.ContentLength ELSE MaxBody)
    /\ req' = [req EXCEPT ![r].pc = "l82blocked"]
    /\ UNCHANGED <<flags, globalState, mainpc, sdNotify, mainLog, invoked>>

Next ==
    \/ MainParseBaseURL
    \/ MainSetClient
    \/ MainSetAppendPath
    \/ MainSetUsername
    \/ MainSetPassword
    \/ MainNewServer
    \/ ListenBound
    \/ ListenFailed
    \/ \E res \in SdNotifyResults : OnListening(res)
    \/ \E r \in Reqs, f \in Filenames : Accept(r, f)
    \/ \E r \in Reqs : Compose(r)
    \/ \E r \in Reqs : NewRequest(r)
    \/ \E r \in Reqs, resp \in Responses : DoResponse(r, resp)
    \/ \E r \in Reqs : DoFailed(r)
    \/ \E r \in Reqs : CheckStatus(r)
    \/ \E r \in Reqs : SetSize(r)
    \/ \E r \in Reqs : ReadFromCall(r)
    \/ \E r \in Reqs : ReadFromBlock(r)
    \/ \E r \in Reqs : ReadFromEOF(r)
    \/ \E r \in Reqs : ReadFromFailed(r)
    \/ \E r \in Reqs : DoBlocksForever(r)
    \/ \E r \in Reqs : ReadFromBlocksForever(r)

Spec == Init /\ [][Next]_vars

\* the steps of one handler invocation that return control to the handler
HandlerStep(r) ==
    \/ Compose(r)
    \/ NewRequest(r)
    \/ \E resp \in Responses : DoResponse(r, resp)
    \/ DoFailed(r)
    \/ CheckStatus(r)
    \/ SetSize(r)
    \/ ReadFromCall(r)
    \/ ReadFromBlock(r)
    \/ ReadFromEOF(r)
    \/ ReadFromFailed(r)

\* main started with the default flag values
InitDefaults ==
    /\ Init
    /\ flags = [httpBaseUrl |-> httpBaseUrlDefault, appendPath |-> appendPathDefault,
                authUsername |-> Empty, authPassword |-> Empty]

\* The scheduling the Go runtime gives: main runs to ListenAndServe2, and a
\* handler goroutine that can take a step takes one.
FairSpec ==
    /\ InitDefaults
    /\ [][Next]_vars
    /\ \A r \in Reqs : WF_vars(HandlerStep(r))

(***************************************************************************)
(* Properties                                                              *)
(***************************************************************************)
Done(r) == req[r].pc = "done"
Failed(r) == Done(r) /\ req[r].err # NoErr
Succeeded(r) == Done(r) /\ req[r].err = NoErr
\* the positions of the sink operations named op
OpsAt(r, op) == {i \in 1..Len(req[r].sink) : req[r].sink[i].op = op}
\* the handler is past the size declaration of lines 77-80
PastSetSize(r) ==
    \/ req[r].pc \in {"l82", "reading", "l82blocked"}
    \/ Done(r) /\ req[r].resp.StatusCode = StatusOK

\* C1: after a successful fetch the sink gets exactly one size declaration,
\* equal to a declared length L >= 0 (L = 0 included) and ahead of every
\* other sink operation; with no declared length it gets none, and the body
\* is streamed either way.
C1_SizeBeforeBytes ==
    \A r \in Reqs :
        PastSetSize(r) =>
            /\ IF req[r].resp.ContentLength >= 0
               THEN /\ OpsAt(r, "SetSize") = {1}
                    /\ req[r].sink[1].n = req[r].resp.ContentLength
               ELSE OpsAt(r, "SetSize") = {}
            /\ \A i \in OpsAt(r, "Write") : \A j \in OpsAt(r, "SetSize") : j < i
            /\ req[r].pc \in {"reading", "done"} => OpsAt(r, "ReadFrom") # {}

C1_Witness ==
    \E r \in Reqs :
        /\ Succeeded(r)
        /\ req[r].resp.ContentLength = MaxBody
        /\ Written(r) = MaxBody
        /\ req[r].sink[1] = SinkOp("SetSize", MaxBody)

\* C2: a 404 makes the handler return the file-not-found error, and the type
\* of that error differs from the type of every other failure a handler
\* returns.
C2_NotFoundDistinctByType ==
    \A r \in Reqs :
        (Done(r) /\ req[r].resp.StatusCode = StatusNotFound) =>
            /\ req[r].err = ErrFileNotFound
            /\ \A q \in Reqs :
                   (Failed(q) /\ req[q].resp.StatusCode # StatusNotFound)
                       => req[q].err.type # req[r].err.type

\* C3: a request that ends without a 200 response (no request built, no
\* response, 404, any other status) has had no sink operation, and its
\* handler returns an error.
C3_NoSinkOpBeforeStreaming ==
    \A r \in Reqs :
        req[r].resp.StatusCode # StatusOK =>
            /\ req[r].sink = << >>
            /\ Done(r) => req[r].err # NoErr

C3_Witness ==
    \E r \in Reqs :
        /\ Failed(r)
        /\ req[r].resp.StatusCode = StatusInternalServerError
        /\ req[r].sink = << >>

\* C4: once the handler has returned, the body of a response the fetch
\* returned has been closed exactly once, on every exit path; it is never
\* closed twice, and nothing is closed when the fetch returned no response.
C4_BodyReleasedOnce ==
    \A r \in Reqs :
        /\ req[r].closed <= 1
        /\ req[r].resp = NoResp => req[r].closed = 0
        /\ (Done(r) /\ req[r].resp # NoResp) => req[r].closed = 1
        /\ ~Done(r) => req[r].closed = 0

C4_Witness ==
    \E r \in Reqs :
        /\ Done(r)
        /\ req[r].resp.StatusCode = StatusNotFound
        /\ req[r].closed = 1

\* "http://host/x/", "/a/b.bin" and "http://host/x/a/b.bin"
E_base == S_http \o S_css \o S_host \o <<"/", "x", "/">>
E_file == Slash \o S_abbin
E_target == E_base \o S_abbin

\* C5: with appendPath the target is the base address followed by the
\* filename without its leading separators: the part cut off is all
\* separators, what is left does not begin with one (so no double separator
\* at the join), and "http://host/x/" with "/a/b.bin" gives
\* "http://host/x/a/b.bin"; without appendPath the target is the base address.
C5_TargetComposition ==
    \A r \in Reqs :
        req[r].pc \notin {"idle", "l40"} =>
            LET base == globalState.httpBaseUrl
                f == req[r].filename
            IN IF globalState.appendPath
               THEN /\ \E k \in 0..Len(f) :
                          /\ \A i \in 1..k : f[i] = "/"
                          /\ k < Len(f) => f[k + 1] # "/"
                          /\ req[r].uri = base \o SubSeq(f, k + 1, Len(f))
                    /\ (HasSuffixSlash(base) /\ Len(req[r].uri) > Len(base))
                           => req[r].uri[Len(base) + 1] # "/"
                    /\ (base = E_base /\ f = E_file) => req[r].uri = E_target
               ELSE req[r].uri = base

C5_Witness ==
    \E r \in Reqs :
        /\ req[r].pc = "l50"
        /\ globalState.appendPath
        /\ globalState.httpBaseUrl = E_base
        /\ req[r].filename = Slash \o E_file
        /\ req[r].uri = E_target

\* C6: a handler invocation dispatches at most one fetch, and a transport
\* failure of that fetch ends the invocation with an error after that one
\* dispatch.
C6_NoRetry ==
    \A r \in Reqs :
        /\ Len(req[r].fetches) <= 1
        /\ req[r].err.msg = "Get" => (Done(r) /\ Len(req[r].fetches) = 1)
        /\ req[r].pc \in {"idle", "l40", "l50", "l62"} => req[r].fetches = << >>

C6_Witness ==
    \E r \in Reqs : Failed(r) /\ req[r].err.msg = "Get" /\ Len(req[r].fetches) = 1

\* the flag values that parse with a scheme and a host
GoodBaseUrls == {httpBaseUrlDefault, U_hostx}
Started == mainpc \in {"l128", "l129", "serving"}

\* C7: with a base address that does not parse or lacks a scheme or a host,
\* main is at the parse or has aborted: no server is created, no
\* notification is sent and no read request is handled.
C7_InvalidBaseNeverServes ==
    /\ (Started \/ invoked \/ sdNotify # << >> \/ \E r \in Reqs : req[r].pc # "idle")
           => flags.httpBaseUrl \in GoodBaseUrls
    /\ flags.httpBaseUrl \notin GoodBaseUrls => mainpc \in {"l120", "panic"}
    /\ (mainpc = "panic" /\ flags.httpBaseUrl \notin GoodBaseUrls)
           => mainLog = <<"FATAL: invalid base URL">>

C7_Witness ==
    /\ mainpc = "panic"
    /\ flags.httpBaseUrl = U_nohost
    /\ mainLog = <<"FATAL: invalid base URL">>

\* C8: SdNotify is called at most once, only once the server is bound, and
\* exactly once by the time requests are served; a failed bind sends none;
\* whatever the call returns, the result is logged and the server serves.
C8_ReadyNotifiedOnce ==
    /\ Len(sdNotify) <= 1
    /\ sdNotify # << >> => mainpc = "serving"
    /\ (mainpc = "serving" \/ invoked) => Len(sdNotify) = 1
    /\ mainpc \in {"l120", "l121", "l122", "l123", "l124", "l126", "l128", "l129", "panic"}
           => sdNotify = << >>
    /\ sdNotify = <<"error">> => mainLog = <<"INFO: Listening", "WARN: systemd">>

C8_Witness ==
    /\ sdNotify = <<"error">>
    /\ mainpc = "serving"
    /\ \E r \in Reqs : Succeeded(r)

\* C9: the step on which one request fails leaves every other request as it
\* was (position, target, response, sink operations, outcome), leaves the
\* configuration as it was, and leaves the process serving.
C9_FailureIsLocal ==
    [][\A r \in Reqs :
          (~Failed(r) /\ req'[r].pc = "done" /\ req'[r].err # NoErr) =>
              /\ \A q \in Reqs \ {r} : req'[q] = req[q]
              /\ globalState' = globalState
              /\ mainpc = "serving" /\ mainpc' = "serving"]_vars

C9_Witness ==
    \E r, q \in Reqs :
        /\ r # q
        /\ Failed(r)
        /\ req[q].pc = "reading"
        /\ Written(q) > 0

\* C10: globalState changes only on the startup steps of main, before the
\* engine has invoked a handler and never on the step that invokes one; no
\* handler step changes it.
C10_ConfigWrittenOnlyAtStartup ==
    [][globalState' # globalState =>
          /\ mainpc \in {"l120", "l121", "l122", "l123", "l124"}
          /\ ~invoked /\ ~invoked'
          /\ req' = req
          /\ \A r \in Reqs : req[r].pc = "idle"]_vars

C10_Witness ==
    /\ globalState.appendPath = FALSE
    /\ globalState.authUsername = <<"u">>
    /\ globalState.httpClient = "client"
    /\ \E r \in Reqs : Done(r) /\ req[r].uri = globalState.httpBaseUrl

\* C11: every handler invocation that has started eventually returns; a fetch
\* the origin never answers, or a body it stops sending, is abandoned when the
\* transfer timeout elapses, and the handler ends with a failure.
C11_HandlerTerminates ==
    \A r \in Reqs : (req[r].pc # "idle") ~> Done(r)

\* C12: a dispatched fetch carries basic-auth credentials exactly when the
\* -http-auth-user flag is non-empty; they are then the flag's username and
\* password (an empty password included); with an empty username nothing is
\* attached, whatever the password.
C12_CredentialsIffUsername ==
    \A r \in Reqs : \A i \in 1..Len(req[r].fetches) :
        LET a == req[r].fetches[i].auth IN
        /\ a.set <=> flags.authUsername # Empty
        /\ a.set => (a.user = flags.authUsername /\ a.pass = flags.authPassword)
        /\ ~a.set => a = NoAuth

C12_Witness ==
    \E r \in Reqs :
        /\ Len(req[r].fetches) = 1
        /\ flags.authPassword = Empty
        /\ req[r].fetches[1].auth = [set |-> TRUE, user |-> <<"u">>, pass |-> Empty]

\* "10.0.0.1", "1069", "10.0.0.2", "2069"
E_ip1 == <<"1", "0", ".", "0", ".", "0", ".", "1">>
E_port1 == <<"1", "0", "6", "9">>
E_ip2 == <<"1", "0", ".", "0", ".", "0", ".", "2">>
E_port2 == <<"2", "0", "6", "9">>

\* C13: with appendPath true or false, a dispatched fetch carries the peer's
\* IP, the peer's port and the filename as the peer sent it, leading
\* separators included.
C13_RequestMetadata ==
    \A r \in Reqs : \A i \in 1..Len(req[r].fetches) :
        LET h == req[r].fetches[i] IN
        /\ h.hdrIP = (IF r = "r1" THEN E_ip1 ELSE E_ip2)
        /\ h.hdrPort = (IF r = "r1" THEN E_port1 ELSE E_port2)
        /\ h.hdrFile = req[r].filename
        /\ h.hdrFile \in Filenames

C13_Witness ==
    \E r \in Reqs :
        /\ Len(req[r].fetches) = 1
        /\ globalState.appendPath
        /\ req[r].fetches[1].hdrFile = Slash \o Slash \o S_abbin
        /\ req[r].fetches[1].uri = globalState.httpBaseUrl \o S_abbin
        /\ req[r].fetches[1].hdrPort = E_port2

Logged(r, line) == \E i \in 1..Len(req[r].log) : req[r].log[i] = line
LastLog(r) == req[r].log[Len(req[r].log)]

C15_BaseNormalisation ==
    mainpc \notin {"l120", "panic"} =>
        /\ flags.httpBaseUrl = httpBaseUrlDefault =>
               globalState.httpBaseUrl =
                   (IF flags.appendPath THEN httpBaseUrlDefault \o Slash ELSE httpBaseUrlDefault)
        /\ flags.httpBaseUrl = U_hostx => globalState.httpBaseUrl = E_base
        /\ LET b == globalState.httpBaseUrl IN
           /\ flags.appendPath => HasSuffixSlash(b)
           /\ b[Len(b) - 1] # "/"

C15_Witness ==
    /\ mainpc = "l121"
    /\ flags.appendPath
    /\ flags.httpBaseUrl = httpBaseUrlDefault
    /\ globalState.httpBaseUrl = httpBaseUrlDefault \o Slash

\* C16: a handler that has returned returned nil exactly when it dispatched
\* the fetch, the origin answered 200, ReadFrom was entered, no ReadFrom
\* failure occurred and every declared block was delivered; in particular a
\* failure after delivered blocks is a failure.
C16_SuccessIffStreamedToEnd ==
    \A r \in Reqs :
        Done(r) =>
            /\ req[r].err = NoErr <=>
                   /\ Len(req[r].fetches) = 1
                   /\ req[r].resp.StatusCode = StatusOK
                   /\ OpsAt(r, "ReadFrom") # {}
                   /\ ~Logged(r, "ERR: ReadFrom failed")
                   /\ req[r].resp.ContentLength >= 0 => Written(r) = req[r].resp.ContentLength
            /\ (Written(r) > 0 /\ Logged(r, "ERR: ReadFrom failed")) => req[r].err # NoErr

C16_Witness ==
    \E r \in Reqs :
        /\ Failed(r)
        /\ Written(r) > 0
        /\ req[r].err.msg = "ReadFrom"

\* "http://host/dira", "b"
E_dira == S_http \o S_css \o S_host \o <<"/", "d", "i", "r", "a">>
E_b == <<"b">>

\* C17: while a request is handled, globalState.appendPath is the flag value
\* line 120 normalised the base address with, so a base address the handler
\* appends to ends with a separator: the default base with "a/b.bin" gives
\* "http://127.0.0.1/tftp/a/b.bin", and "http://host/dira" with "b" gives
\* "http://host/dira/b".
C17_AppendPathConsistent ==
    /\ ComposeUri(ParseBaseURL(E_dira, TRUE).base, TRUE, E_b) = E_dira \o Slash \o E_b
    /\ \A r \in Reqs :
           req[r].pc # "idle" =>
               /\ globalState.appendPath = flags.appendPath
               /\ globalState.appendPath => HasSuffixSlash(globalState.httpBaseUrl)
               /\ (/\ req[r].pc # "l40"
                   /\ globalState.appendPath
                   /\ flags.httpBaseUrl = httpBaseUrlDefault
                   /\ req[r].filename = S_abbin)
                      => req[r].uri = httpBaseUrlDefault \o Slash \o S_abbin

C17_Witness ==
    \E r \in Reqs :
        /\ req[r].pc = "l62"
        /\ flags.appendPath
        /\ flags.httpBaseUrl = httpBaseUrlDefault
        /\ req[r].filename = S_abbin
        /\ req[r].uri = httpBaseUrlDefault \o Slash \o S_abbin

\* C18: past the status check, a response whose status is not 200 (204
\* included) has ended the handler with no sink operation and with the
\* file-not-found error for 404 or the origin error carrying the status for
\* anything else; only a 200 response reaches the sink.
C18_OnlyStatusOKStreams ==
    \A r \in Reqs :
        /\ (req[r].resp # NoResp /\ req[r].pc # "l69" /\ req[r].resp.StatusCode # 200) =>
               /\ Done(r)
               /\ req[r].sink = << >>
               /\ req[r].err =
                      IF req[r].resp.StatusCode = 404
                      THEN [type |-> "*errors.errorString", msg |-> "File not found", status |-> 0]
                      ELSE [type |-> "*errors.errorString", msg |-> "HTTP request error",
                            status |-> req[r].resp.StatusCode]
        /\ req[r].sink # << >> => req[r].resp.StatusCode = 200

C18_Witness ==
    \E r \in Reqs :
        /\ Done(r)
        /\ req[r].resp.StatusCode = 204
        /\ req[r].err.status = 204
        /\ req[r].sink = << >>

====
